---- MODULE Spec2Model ----
(***************************************************************************)
(* Job Queue Manager of story-gen: the story_queue table of               *)
(* DatabaseManager (src/database.py) and the StoryQueue worker loop       *)
(* (src/story_queue.py).  A row of story_queue is a record of `jobs`;     *)
(* an id that holds no row has status "none".  Each worker thread started *)
(* by start_processing is a slot of `pc` / `next_item`.                   *)
(***************************************************************************)
EXTENDS Integers, FiniteSets, Sequences, TLC

\* ------------------------------------------------------------------ bounds
MaxJobs == 3            \* rows ever inserted (AUTOINCREMENT ids 1..MaxJobs)
MaxThreads == 2         \* worker threads alive at once
MaxBacklog == 2         \* render_queue rows with status 'queued'
HighThreshold == 2      \* config.render_queue_high_threshold
LowThreshold == 1       \* config.render_queue_low_threshold
MaxAttemptCount == 4    \* executor failures counted per job
MaxNodes == 2           \* ProcessingNode objects ever created
MaxTasks == 3           \* ProcessingTask objects ever created
max_queue_size == 2     \* NodeManager.max_queue_size
MaxDays == 2            \* whole days a finished row is followed for
MaxClock == 2           \* seconds the CURRENT_TIMESTAMP clock advances

\* ------------------------------------------------------- program constants
MaxAttempts == 3        \* story_queue.max_attempts DEFAULT 3
DefaultPriority == 5    \* add_to_queue(priority=5)
ContinuousPriority == 3 \* add_to_queue(random_config, priority=3, ...)

Ids == 1..MaxJobs
Threads == 1..MaxThreads
Priorities == {DefaultPriority, 9}
NULL == "NULL"
NoDataError == "Story generation returned no data"
Messages == {"", "e1"}

VARIABLES
    jobs,                 \* story_queue table: id -> row
    nextId,               \* next AUTOINCREMENT id
    running,              \* StoryQueue.running
    paused,               \* StoryQueue.paused
    continuous_enabled,   \* config.continuous_enabled
    retry_failed_items,   \* config.retry_failed_items
    backlog,              \* get_render_queue_status()['queued']
    current_queue_item,   \* StoryQueue.current_queue_item (id, 0 = None)
    worker_thread,        \* StoryQueue.worker_thread (thread, 0 = None)
    pc,                   \* per worker thread: dead | top | got | exec
    next_item,            \* per worker thread: local next_item (id, 0 = None)
    remove_pending,       \* remove_from_queue past its lock, before its DELETE
    clock                 \* CURRENT_TIMESTAMP, in seconds

\* NodeManager (src/node_manager.py)
VARIABLES
    nodes,                \* NodeManager.nodes: node id -> ProcessingNode
    tasks,                \* the ProcessingTask objects ever created
    nextTask,             \* number of the next ProcessingTask object
    task_queue,           \* NodeManager.task_queue
    completed_tasks,      \* NodeManager.completed_tasks
    step_assignments,     \* NodeManager.step_assignments: step -> node ids
    nm_running,           \* NodeManager._running
    sched,                \* locals of the _process_queue thread
    executing,            \* live _execute_task threads: <<task, node>>
    submit_error          \* what the last submit_task call raised

\* OllamaManager (src/ollama_manager.py)
VARIABLES
    ollama_instances,        \* instance key -> models (absent: not a key)
    step_model_assignments,  \* step -> <<instance key, model>>
    settings_file,           \* step_model_assignments in model_settings.json
    selected_model,          \* config['selected_model']
    router_result            \* what the last router call returned

\* FastNetworkDiscovery (src/network_discovery.py)
VARIABLES
    cached_instances,     \* FastNetworkDiscovery.ollama_instances: key -> status
    cache_valid,          \* is_cache_valid()
    endpoint_state,       \* what each endpoint does to a request: up | down | http_error
    scan_result           \* what the last discovery call returned

queueVars == <<jobs, nextId, running, paused, continuous_enabled,
               retry_failed_items, backlog, current_queue_item, worker_thread,
               pc, next_item, remove_pending, clock>>

nodeVars == <<nodes, tasks, nextTask, task_queue, completed_tasks,
              step_assignments, nm_running, sched, executing, submit_error>>

routerVars == <<ollama_instances, step_model_assignments, settings_file,
                selected_model, router_result>>

discoveryVars == <<cached_instances, cache_valid, endpoint_state, scan_result>>

vars == <<queueVars, nodeVars, routerVars, discoveryVars>>

\* a started_at that is NULL
NoClock == -1

\* a timestamp string, as _calculate_eta_for_queue_item and
\* _calculate_processing_eta return it
Eta == "eta"

\* the value of older_than_days that stands for None
NoDays == -1

\* completed_at is kept as the number of whole days since the timestamp;
\* NoDays is the NULL of a row that never finished
NoRow == [status |-> "none", priority |-> 0, queue_position |-> 0, attempts |-> 0,
          error_message |-> NULL, continuous_generation |-> FALSE,
          completed_at |-> NoDays, started_at |-> NoClock,
          estimated_completion |-> NULL]

Queued(js) == {i \in Ids : js[i].status = "queued"}

SetMax(S) == CHOOSE x \in S : \A y \in S : y <= x

\* ------------------------------------------------------- DatabaseManager

\* SELECT MAX(queue_position) ... WHERE status = "queued"; (max_pos or 0) + 1
next_position(js) ==
    IF Queued(js) = {} THEN 1
    ELSE SetMax({js[i].queue_position : i \in Queued(js)}) + 1

add_to_story_queue(js, id, priority, continuous) ==
    [js EXCEPT ![id] = [status |-> "queued", priority |-> priority,
                        queue_position |-> next_position(js), attempts |-> 0,
                        error_message |-> NULL,
                        continuous_generation |-> continuous,
                        completed_at |-> NoDays, started_at |-> NoClock,
                        estimated_completion |-> Eta]]

\* mutant: ORDER BY queue_position ASC alone, the priority forgotten
get_next_queue_item_by_position(js) ==
    {i \in Queued(js) : \A j \in Queued(js) :
        js[i].queue_position <= js[j].queue_position}

\* ORDER BY priority DESC, queue_position ASC LIMIT 1: the rows that may come
\* first (rows equal in both keys come in an order SQLite does not fix).
get_next_queue_item(js) ==
    {i \in Queued(js) : \A j \in Queued(js) :
        \/ js[i].priority > js[j].priority
        \/ /\ js[i].priority = js[j].priority
           /\ js[i].queue_position <= js[j].queue_position}

\* _calculate_processing_eta: None for a row without started_at, else a
\* timestamp string
calculate_processing_eta(row) ==
    IF row.started_at = NoClock THEN NULL ELSE Eta

\* the parameter that the placeholder of "estimated_completion = ?" receives:
\* update_values.insert(-1, eta) runs before queue_id is appended, so eta goes
\* in front of the last value collected so far and that last value is bound
\* to the placeholder added last
bound_to_estimated_completion(current_step, progress_data, error) ==
    IF error # NULL /\ error # "" THEN error
    ELSE IF progress_data # NULL THEN progress_data
    ELSE current_step

\* started_at = CURRENT_TIMESTAMP in every update with status 'processing'
started_at_after(row, status) ==
    IF status = "processing" THEN clock ELSE row.started_at

\* mutant: the finishing branch leaves estimated_completion alone
estimated_completion_kept(row, status, current_step, progress_data, error) ==
    IF status = "processing" /\ calculate_processing_eta(row) # NULL
    THEN bound_to_estimated_completion(current_step, progress_data, error)
    ELSE row.estimated_completion

\* "if eta: estimated_completion = ?" under 'processing',
\* "estimated_completion = NULL" under 'completed' and 'failed'
estimated_completion_after(row, status, current_step, progress_data, error) ==
    IF status = "processing"
    THEN IF calculate_processing_eta(row) # NULL
         THEN bound_to_estimated_completion(current_step, progress_data, error)
         ELSE row.estimated_completion
    ELSE IF status \in {"completed", "failed"} THEN NULL
    ELSE row.estimated_completion

\* UPDATE story_queue SET status = ?, [error_message = ?],
\* [started_at = CURRENT_TIMESTAMP], [estimated_completion = ?],
\* [completed_at = CURRENT_TIMESTAMP, estimated_completion = NULL] WHERE id = ?
\* ("if error:" skips None and the empty string; no row, no change)
update_queue_item_status(js, id, status, current_step, progress_data, error) ==
    IF js[id].status = "none" THEN js
    ELSE [js EXCEPT ![id].status = status,
                    ![id].error_message =
                        IF error # NULL /\ error # "" THEN error ELSE @,
                    ![id].started_at = started_at_after(js[id], status),
                    ![id].estimated_completion =
                        estimated_completion_after(js[id], status, current_step,
                                                   progress_data, error),
                    ![id].completed_at =
                        IF status \in {"completed", "failed"} THEN 0 ELSE @]

\* UPDATE story_queue SET attempts = attempts + 1 WHERE id = ?
increment_queue_attempts(js, id) ==
    IF js[id].status = "none" THEN js
    ELSE [js EXCEPT ![id].attempts = @ + 1]

\* the value increment_queue_attempts returns: result[0] if result else 0
attempts_after(js, id) ==
    IF js[id].status = "none" THEN 0 ELSE js[id].attempts

\* DELETE ... WHERE id = ?; then every queued row's position becomes the
\* number of queued rows with an id up to its own
db_remove_from_queue(js, id) ==
    IF js[id].status = "none" THEN js
    ELSE LET d == [js EXCEPT ![id] = NoRow]
         IN [i \in Ids |->
               IF d[i].status = "queued"
               THEN [d[i] EXCEPT !.queue_position =
                        Cardinality({j \in Queued(d) : j <= i})]
               ELSE d[i]]

\* DELETE ... WHERE status IN ('completed', 'failed'), without an age test
delete_completed_and_failed(js) ==
    [i \in Ids |-> IF js[i].status \in {"completed", "failed"} THEN NoRow
                   ELSE js[i]]

\* DELETE ... WHERE status IN ('completed', 'failed')
\*            AND completed_at < datetime('now', '-N days')
\* (a NULL completed_at compares to NULL and the row stays)
clear_completed_queue_items(js, older_than_days) ==
    [i \in Ids |->
        IF /\ js[i].status \in {"completed", "failed"}
           /\ js[i].completed_at # NoDays
           /\ js[i].completed_at > older_than_days
        THEN NoRow ELSE js[i]]

\* mutant: the target row moved, the rows in between left where they are
db_reorder_queue_item_without_shift(js, id, new_position) ==
    IF js[id].status = "none" THEN js
    ELSE [js EXCEPT ![id].queue_position = new_position]

db_reorder_queue_item(js, id, new_position) ==
    IF js[id].status = "none" THEN js
    ELSE LET cur == js[id].queue_position
             shifted == [i \in Ids |->
                 IF js[i].status = "queued" /\ new_position < cur
                    /\ js[i].queue_position >= new_position
                    /\ js[i].queue_position < cur
                 THEN [js[i] EXCEPT !.queue_position = @ + 1]
                 ELSE IF js[i].status = "queued" /\ new_position > cur
                         /\ js[i].queue_position > cur
                         /\ js[i].queue_position <= new_position
                 THEN [js[i] EXCEPT !.queue_position = @ - 1]
                 ELSE js[i]]
         IN IF cur = new_position THEN js
            ELSE [shifted EXCEPT ![id].queue_position = new_position]

\* ------------------------------------------------------ NodeManager data

NodeIds == 1..MaxNodes
TaskIds == 1..MaxTasks
TaskTypes == {"text_llm", "comfyui"}
CapabilityLists == {{"text_llm"}, {"comfyui"}, {"hybrid"}}
NodeSteps == {"story", "shots"}
QueueFull == "Task queue is full"
\* how an _execute_task thread ends: <<result, error>>
Outcomes == {<<"result", NULL>>, <<NULL, "error">>}

\* processing times of a task, in seconds
Durations == {30, 90}

\* avg_processing_time values are kept multiplied by TimeScale, which keeps
\* the moving average 0.8 * avg + 0.2 * time exact over the tasks a node can
\* complete
TimeScale == 5 ^ MaxTasks

\* a task type that is not a key of avg_processing_time
NoTime == -1

\* a ProcessingNode object not yet constructed; `present` tells whether the
\* object is a value of NodeManager.nodes, `stale` whether the time since
\* last_heartbeat exceeds node_timeout, `reachable` what _ping_node returns
NoNode == [status |-> "none", present |-> FALSE, capabilities |-> {},
           current_tasks |-> [t \in TaskTypes |-> 0],
           stale |-> FALSE, reachable |-> FALSE, total_completed |-> 0,
           avg_processing_time |-> [t \in TaskTypes |-> NoTime]]

\* a ProcessingTask object not yet constructed
NoTask == [status |-> "none", task_type |-> "text_llm", step |-> "story",
           priority |-> 0, assigned_node |-> 0, result |-> NULL, error |-> NULL]

NoSched == [pc |-> "idle", task |-> 0, node |-> 0]

NodeManagerInit ==
    /\ nodes = [n \in NodeIds |-> NoNode]
    /\ tasks = [t \in TaskIds |-> NoTask]
    /\ nextTask = 1
    /\ task_queue = <<>>
    /\ completed_tasks = <<>>
    /\ step_assignments = [s \in NodeSteps |-> <<>>]
    /\ nm_running = FALSE
    /\ sched = NoSched
    /\ executing = {}
    /\ submit_error = NULL

\* ---------------------------------------------------- OllamaManager data

Endpoints == {"localhost:11434", "10.0.0.2:11434"}
Models == {"m1", "m2"}
PipelineSteps == {"story", "narration"}
StepNames == PipelineSteps \cup {"subtitles"}
Unassigned == <<NULL, NULL>>

OllamaManagerInit ==
    /\ ollama_instances = [e \in {} |-> {}]
    /\ step_model_assignments = [s \in PipelineSteps |-> Unassigned]
    /\ settings_file = [s \in {} |-> Unassigned]
    /\ selected_model = NULL
    /\ router_result = [op |-> "none", ok |-> FALSE, target |-> Unassigned]

\* ---------------------------------------------- FastNetworkDiscovery data

EndpointStates == {"up", "down", "http_error"}

\* self.ollama_instances = {}; self.cache_timestamp = 0
FastNetworkDiscoveryInit ==
    /\ cached_instances = [e \in {} |-> "online"]
    /\ cache_valid = FALSE
    /\ endpoint_state = [e \in Endpoints |-> "down"]
    /\ scan_result = [op |-> "none", found |-> {}]

\* ------------------------------------------------------------- StoryQueue

Init ==
    /\ jobs = [i \in Ids |-> NoRow]
    /\ nextId = 1
    /\ running = FALSE
    /\ paused = FALSE
    /\ continuous_enabled = FALSE
    /\ retry_failed_items = TRUE
    /\ backlog = 0
    /\ current_queue_item = 0
    /\ worker_thread = 0
    /\ pc = [w \in Threads |-> "dead"]
    /\ next_item = [w \in Threads |-> 0]
    /\ remove_pending = 0
    /\ clock = 0
    /\ NodeManagerInit
    /\ OllamaManagerInit
    /\ FastNetworkDiscoveryInit

DeadThreads == {w \in Threads : pc[w] = "dead"}

\* threading.Thread(target=self._process_queue).start(): a new thread at the
\* top of the loop
spawn_worker ==
    LET w == CHOOSE x \in DeadThreads : \A y \in DeadThreads : x <= y
    IN /\ worker_thread' = w
       /\ pc' = [pc EXCEPT ![w] = "top"]

\* if not self.running and self.story_generator: running = True; start thread
start_processing_body ==
    IF ~running
    THEN /\ DeadThreads # {}
         /\ running' = TRUE
         /\ spawn_worker
    ELSE UNCHANGED <<running, worker_thread, pc>>

start_processing ==
    /\ start_processing_body
    /\ UNCHANGED <<jobs, nextId, paused, continuous_enabled, retry_failed_items,
                   backlog, current_queue_item, next_item>>
    /\ UNCHANGED <<remove_pending, clock, nodeVars, routerVars, discoveryVars>>

\* running = False; worker_thread.join(timeout=5): a joined thread that is
\* between two items sees running = False and ends within the timeout, one
\* that holds an item may run on past it
stop_processing ==
    /\ running' = FALSE
    /\ pc' = IF worker_thread # 0 /\ pc[worker_thread] = "top"
             THEN [pc EXCEPT ![worker_thread] = "dead"]
             ELSE pc
    /\ UNCHANGED <<jobs, nextId, paused, continuous_enabled, retry_failed_items,
                   backlog, current_queue_item, worker_thread, next_item>>
    /\ UNCHANGED <<remove_pending, clock, nodeVars, routerVars, discoveryVars>>

add_to_queue(priority, continuous) ==
    /\ nextId <= MaxJobs
    /\ jobs' = add_to_story_queue(jobs, nextId, priority, continuous)
    /\ nextId' = nextId + 1
    /\ start_processing_body
    /\ UNCHANGED <<paused, continuous_enabled, retry_failed_items, backlog,
                   current_queue_item, next_item>>
    /\ UNCHANGED <<remove_pending, clock, nodeVars, routerVars, discoveryVars>>

\* remove_from_queue up to the end of its "with self.lock" block: a call for the
\* item the worker holds returns False there
remove_from_queue(id) ==
    /\ remove_pending = 0
    /\ jobs[id].status # "none"
    /\ current_queue_item # id
    /\ remove_pending' = id
    /\ UNCHANGED <<jobs, nextId, running, paused, continuous_enabled,
                   retry_failed_items, backlog, current_queue_item, worker_thread,
                   pc, next_item>>
    /\ UNCHANGED <<clock, nodeVars, routerVars, discoveryVars>>

\* the rest of remove_from_queue: return self.db.remove_from_queue(queue_id)
remove_from_queue_delete ==
    /\ remove_pending # 0
    /\ jobs' = db_remove_from_queue(jobs, remove_pending)
    /\ remove_pending' = 0
    /\ UNCHANGED <<nextId, running, paused, continuous_enabled, retry_failed_items,
                   backlog, current_queue_item, worker_thread, pc, next_item>>
    /\ UNCHANGED <<clock, nodeVars, routerVars, discoveryVars>>

reorder_queue_item(id, new_position) ==
    /\ jobs[id].status # "none"
    /\ jobs' = db_reorder_queue_item(jobs, id, new_position)
    /\ UNCHANGED <<nextId, running, paused, continuous_enabled, retry_failed_items,
                   backlog, current_queue_item, worker_thread, pc, next_item>>
    /\ UNCHANGED <<remove_pending, clock, nodeVars, routerVars, discoveryVars>>

pause_queue ==
    /\ paused' = TRUE
    /\ UNCHANGED <<jobs, nextId, running, continuous_enabled, retry_failed_items,
                   backlog, current_queue_item, worker_thread, pc, next_item>>
    /\ UNCHANGED <<remove_pending, clock, nodeVars, routerVars, discoveryVars>>

resume_queue ==
    /\ paused' = FALSE
    /\ UNCHANGED <<jobs, nextId, running, continuous_enabled, retry_failed_items,
                   backlog, current_queue_item, worker_thread, pc, next_item>>
    /\ UNCHANGED <<remove_pending, clock, nodeVars, routerVars, discoveryVars>>

update_config(continuous, retry) ==
    /\ continuous_enabled' = continuous
    /\ retry_failed_items' = retry
    /\ UNCHANGED <<jobs, nextId, running, paused, backlog, current_queue_item,
                   worker_thread, pc, next_item>>
    /\ UNCHANGED <<remove_pending, clock, nodeVars, routerVars, discoveryVars>>

\* update_queue_item_status(queue_id, 'queued', 'retry_manual', error=None)
retry_failed_item(id) ==
    /\ jobs[id].status # "none"
    /\ jobs' = update_queue_item_status(jobs, id, "queued", "retry_manual",
                                        NULL, NULL)
    /\ UNCHANGED <<nextId, running, paused, continuous_enabled, retry_failed_items,
                   backlog, current_queue_item, worker_thread, pc, next_item>>
    /\ UNCHANGED <<remove_pending, clock, nodeVars, routerVars, discoveryVars>>

\* clear_completed_items(older_than_days=None)
clear_completed_items(older_than_days) ==
    /\ jobs' = IF older_than_days = NoDays
               THEN delete_completed_and_failed(jobs)
               ELSE clear_completed_queue_items(jobs, older_than_days)
    /\ UNCHANGED <<nextId, running, paused, continuous_enabled, retry_failed_items,
                   backlog, current_queue_item, worker_thread, pc, next_item>>
    /\ UNCHANGED <<remove_pending, clock, nodeVars, routerVars, discoveryVars>>

\* a day passes: every completed_at timestamp is one day further back
day_passes ==
    /\ \E i \in Ids : jobs[i].completed_at # NoDays /\ jobs[i].completed_at < MaxDays
    /\ jobs' = [i \in Ids |->
                  IF jobs[i].completed_at # NoDays /\ jobs[i].completed_at < MaxDays
                  THEN [jobs[i] EXCEPT !.completed_at = @ + 1]
                  ELSE jobs[i]]
    /\ UNCHANGED <<nextId, running, paused, continuous_enabled, retry_failed_items,
                   backlog, current_queue_item, worker_thread, pc, next_item>>
    /\ UNCHANGED <<remove_pending, clock, nodeVars, routerVars, discoveryVars>>

\* a second passes on the clock behind CURRENT_TIMESTAMP
tick ==
    /\ clock < MaxClock
    /\ clock' = clock + 1
    /\ UNCHANGED <<jobs, nextId, running, paused, continuous_enabled,
                   retry_failed_items, backlog, current_queue_item, worker_thread,
                   pc, next_item, remove_pending>>
    /\ UNCHANGED <<nodeVars, routerVars, discoveryVars>>

\* the renderer takes rows off the render queue, other producers add rows
render_queue_change ==
    /\ \E b \in 0..MaxBacklog : backlog' = b
    /\ UNCHANGED <<jobs, nextId, running, paused, continuous_enabled,
                   retry_failed_items, current_queue_item, worker_thread, pc, next_item>>
    /\ UNCHANGED <<remove_pending, clock, nodeVars, routerVars, discoveryVars>>

\* ------------------------------------------------------- the worker loop

\* mutant: > in place of >=
should_wait_above_high ==
    IF ~continuous_enabled THEN FALSE
    ELSE backlog > HighThreshold

\* mutant: the low threshold in place of the high one
should_wait_at_low ==
    IF ~continuous_enabled THEN FALSE
    ELSE backlog >= LowThreshold

should_wait_for_render_queue ==
    IF ~continuous_enabled THEN FALSE
    ELSE backlog >= HighThreshold

\* mutant: the high threshold in place of the low one
continuous_story_wanted_below_high ==
    /\ continuous_enabled
    /\ ~(backlog >= HighThreshold)
    /\ ~(Cardinality(Queued(jobs)) > 0)

\* whether _maybe_add_continuous_story reaches its add_to_queue call
continuous_story_wanted ==
    /\ continuous_enabled
    /\ ~(backlog >= LowThreshold)
    /\ ~(Cardinality(Queued(jobs)) > 0)

\* one pass of the while loop of _process_queue up to the call of
\* _process_queue_item
process_queue(w) ==
    /\ pc[w] = "top"
    /\ IF ~running
       THEN /\ pc' = [pc EXCEPT ![w] = "dead"]
            /\ UNCHANGED <<jobs, nextId, current_queue_item, next_item>>
       ELSE IF paused \/ should_wait_for_render_queue
       THEN \* sleep; continue; finally: self.current_queue_item = None
            /\ current_queue_item' = 0
            /\ UNCHANGED <<jobs, nextId, pc, next_item>>
       ELSE IF get_next_queue_item(jobs) = {}
       THEN /\ IF continuous_enabled /\ continuous_story_wanted
               THEN /\ nextId <= MaxJobs
                    /\ jobs' = add_to_story_queue(jobs, nextId,
                                                  ContinuousPriority, TRUE)
                    /\ nextId' = nextId + 1
               ELSE UNCHANGED <<jobs, nextId>>
            \* finally: self.current_queue_item = None
            /\ current_queue_item' = 0
            /\ UNCHANGED <<pc, next_item>>
       ELSE \E i \in get_next_queue_item(jobs) :
            /\ current_queue_item' = i
            /\ next_item' = [next_item EXCEPT ![w] = i]
            /\ pc' = [pc EXCEPT ![w] = "got"]
            /\ UNCHANGED <<jobs, nextId>>
    /\ UNCHANGED <<running, paused, continuous_enabled, retry_failed_items, backlog,
                   worker_thread>>
    /\ UNCHANGED <<remove_pending, clock, nodeVars, routerVars, discoveryVars>>

\* _process_queue_item: update_queue_item_status(queue_id, 'processing',
\* 'story_generation')
process_queue_item(w) ==
    /\ pc[w] = "got"
    /\ jobs' = update_queue_item_status(jobs, next_item[w], "processing",
                                        "story_generation", NULL, NULL)
    /\ pc' = [pc EXCEPT ![w] = "exec"]
    /\ UNCHANGED <<nextId, running, paused, continuous_enabled, retry_failed_items,
                   backlog, current_queue_item, worker_thread, next_item>>
    /\ UNCHANGED <<remove_pending, clock, nodeVars, routerVars, discoveryVars>>

\* story_progress_callback: update_queue_item_status(queue_id, 'processing', text, ...)
story_progress_callback(w) ==
    /\ pc[w] = "exec"
    /\ jobs' = update_queue_item_status(jobs, next_item[w], "processing", "text",
                                        "progress_data", NULL)
    /\ UNCHANGED <<nextId, running, paused, continuous_enabled, retry_failed_items,
                   backlog, current_queue_item, worker_thread, pc, next_item>>
    /\ UNCHANGED <<remove_pending, clock, nodeVars, routerVars, discoveryVars>>

\* the end of one pass: finally: self.current_queue_item = None
end_of_pass(w) ==
    /\ current_queue_item' = 0
    /\ pc' = [pc EXCEPT ![w] = "top"]
    /\ next_item' = [next_item EXCEPT ![w] = 0]

\* generate_complete_story returned a story and shots
executor_success(w) ==
    /\ pc[w] = "exec"
    /\ jobs' = update_queue_item_status(jobs, next_item[w], "completed",
                                        "completed", "story_data", NULL)
    /\ backlog' = IF backlog < MaxBacklog THEN backlog + 1 ELSE backlog
    /\ end_of_pass(w)
    /\ UNCHANGED <<nextId, running, paused, continuous_enabled, retry_failed_items,
                   worker_thread>>
    /\ UNCHANGED <<remove_pending, clock, nodeVars, routerVars, discoveryVars>>

\* mutant: the no-data branch without its status update
executor_no_data_without_status(w) ==
    /\ pc[w] = "exec"
    /\ end_of_pass(w)
    /\ UNCHANGED <<jobs, nextId, running, paused, continuous_enabled,
                   retry_failed_items, backlog, worker_thread>>
    /\ UNCHANGED <<remove_pending, clock, nodeVars, routerVars, discoveryVars>>

\* generate_complete_story returned (None, []) or no shots
executor_no_data(w) ==
    /\ pc[w] = "exec"
    /\ jobs' = update_queue_item_status(jobs, next_item[w], "failed", "failed",
                                        NULL, NoDataError)
    /\ end_of_pass(w)
    /\ UNCHANGED <<nextId, running, paused, continuous_enabled, retry_failed_items,
                   backlog, worker_thread>>
    /\ UNCHANGED <<remove_pending, clock, nodeVars, routerVars, discoveryVars>>

\* the except branch of _process_queue_item
on_executor_error(js, id, error_msg) ==
    LET inc == increment_queue_attempts(js, id)
        attempts == attempts_after(inc, id)
    IN IF attempts < MaxAttempts /\ retry_failed_items
       THEN update_queue_item_status(inc, id, "queued", "retry_pending", NULL,
                                     error_msg)
       ELSE update_queue_item_status(inc, id, "failed", "max_attempts_reached",
                                     NULL, error_msg)

\* generate_complete_story raised Exception(error_msg)
executor_raise(w, error_msg) ==
    /\ pc[w] = "exec"
    /\ jobs[next_item[w]].attempts < MaxAttemptCount
    /\ jobs' = on_executor_error(jobs, next_item[w], error_msg)
    /\ end_of_pass(w)
    /\ UNCHANGED <<nextId, running, paused, continuous_enabled, retry_failed_items,
                   backlog, worker_thread>>
    /\ UNCHANGED <<remove_pending, clock, nodeVars, routerVars, discoveryVars>>

\* ------------------------------------------------------------ NodeManager

\* the capability half of can_handle_task
advertises(node, task_type) ==
    \/ task_type = "text_llm"
       /\ ("text_llm" \in node.capabilities \/ "hybrid" \in node.capabilities)
    \/ task_type = "comfyui"
       /\ ("comfyui" \in node.capabilities \/ "hybrid" \in node.capabilities)

\* mutant: the capability forgotten, only the slot looked at
can_handle_task_any_capability(node, task_type) ==
    /\ task_type \in TaskTypes
    /\ node.current_tasks[task_type] = 0

can_handle_task(node, task_type) ==
    /\ task_type \in TaskTypes
    /\ advertises(node, task_type)
    /\ node.current_tasks[task_type] = 0

\* ProcessingNode.update_status: the status that matches the slots
update_status(node) ==
    LET text_busy == node.current_tasks["text_llm"] # 0
        comfyui_busy == node.current_tasks["comfyui"] # 0
    IN [node EXCEPT !.status =
           IF text_busy /\ comfyui_busy THEN "busy_both"
           ELSE IF text_busy THEN "busy_text"
           ELSE IF comfyui_busy THEN "busy_comfyui"
           ELSE "available"]

\* sum(self.avg_processing_time.values()), times TimeScale
sum_of_times(node) ==
    (IF node.avg_processing_time["text_llm"] = NoTime THEN 0
     ELSE node.avg_processing_time["text_llm"])
    + (IF node.avg_processing_time["comfyui"] = NoTime THEN 0
       ELSE node.avg_processing_time["comfyui"])

\* mutant: the timing history left out of the score
calculate_load_score_without_history(node) ==
    LET base_load == Cardinality({t \in TaskTypes : node.current_tasks[t] # 0})
        completion_bonus == IF 12 * node.total_completed < 240
                            THEN 12 * node.total_completed ELSE 240
    IN 120 * TimeScale * base_load - TimeScale * completion_bonus

\* calculate_load_score, times 120 * TimeScale:
\* base_load + avg_time / 60.0 - min(total_completed * 0.1, 2.0) with
\* avg_time = sum(avg_processing_time.values()) / max(1, len(avg_processing_time))
calculate_load_score(node) ==
    LET base_load == Cardinality({t \in TaskTypes : node.current_tasks[t] # 0})
        timed == Cardinality({t \in TaskTypes :
                                 node.avg_processing_time[t] # NoTime})
        completion_bonus == IF 12 * node.total_completed < 240
                            THEN 12 * node.total_completed ELSE 240
    IN 120 * TimeScale * base_load
       + (2 * sum_of_times(node)) \div (IF timed > 1 THEN timed ELSE 1)
       - TimeScale * completion_bonus

\* the node ids get_available_nodes_for_step iterates: the step's assignment
\* or, if it is empty, the keys of self.nodes in insertion order
assigned_node_ids(step) ==
    IF step_assignments[step] # <<>> THEN step_assignments[step]
    ELSE LET RECURSIVE keys(_)
             keys(n) == IF n > MaxNodes THEN <<>>
                        ELSE IF nodes[n].present THEN <<n>> \o keys(n + 1)
                        ELSE keys(n + 1)
         IN keys(1)

\* get_available_nodes_for_step(...)[0], 0 if the list is empty: the stable
\* sort by load score puts first the earliest node of the least score
first_available_node(step, task_type) ==
    LET ids == assigned_node_ids(step)
        ok(k) == /\ nodes[ids[k]].present
                 /\ nodes[ids[k]].status \notin {"offline", "error"}
                 /\ can_handle_task(nodes[ids[k]], task_type)
        cand == {k \in 1..Len(ids) : ok(k)}
        best == {k \in cand : \A j \in cand :
                    \/ calculate_load_score(nodes[ids[k]])
                          < calculate_load_score(nodes[ids[j]])
                    \/ /\ calculate_load_score(nodes[ids[k]])
                            = calculate_load_score(nodes[ids[j]])
                       /\ k <= j}
    IN IF cand = {} THEN 0 ELSE ids[CHOOSE k \in best : TRUE]

\* mutant: inserted before the first queued task of a lower or equal priority
insert_before_equal_priority(q, t, priority) ==
    LET lower == {i \in 1..Len(q) : priority >= tasks[q[i]].priority}
        at == IF lower = {} THEN Len(q) + 1
              ELSE CHOOSE i \in lower : \A j \in lower : i <= j
    IN SubSeq(q, 1, at - 1) \o <<t>> \o SubSeq(q, at, Len(q))

\* list.insert before the first queued task of a lower priority, else append
insert_by_priority(q, t, priority) ==
    LET lower == {i \in 1..Len(q) : priority > tasks[q[i]].priority}
        at == IF lower = {} THEN Len(q) + 1
              ELSE CHOOSE i \in lower : \A j \in lower : i <= j
    IN SubSeq(q, 1, at - 1) \o <<t>> \o SubSeq(q, at, Len(q))

\* the tasks in the slots of a node, in the order of current_tasks.items()
slot_tasks(node) ==
    (IF node.current_tasks["text_llm"] # 0
     THEN <<node.current_tasks["text_llm"]>> ELSE <<>>)
    \o (IF node.current_tasks["comfyui"] # 0
        THEN <<node.current_tasks["comfyui"]>> ELSE <<>>)

\* task.status = "failed"; task.error = reason, for the tasks of a node's slots
fail_slot_tasks(ts, node, reason) ==
    [t \in TaskIds |->
        IF \E ty \in TaskTypes : node.current_tasks[ty] = t
        THEN [ts[t] EXCEPT !.status = "failed", !.error = reason]
        ELSE ts[t]]

start ==
    /\ ~nm_running
    /\ nm_running' = TRUE
    /\ UNCHANGED <<nodes, tasks, nextTask, task_queue, completed_tasks,
                   step_assignments, sched, executing, submit_error>>
    /\ UNCHANGED <<queueVars, routerVars, discoveryVars>>

stop ==
    /\ nm_running' = FALSE
    /\ UNCHANGED <<nodes, tasks, nextTask, task_queue, completed_tasks,
                   step_assignments, sched, executing, submit_error>>
    /\ UNCHANGED <<queueVars, routerVars, discoveryVars>>

\* add_node: a new ProcessingNode object under a new key (keys are taken in
\* ascending order, which is then the insertion order of self.nodes)
add_node(n, capabilities) ==
    /\ nodes[n].status = "none"
    /\ \A m \in NodeIds : m < n => nodes[m].status # "none"
    /\ nodes' = [nodes EXCEPT ![n] =
                    [NoNode EXCEPT !.status = "available", !.present = TRUE,
                                   !.capabilities = capabilities,
                                   !.reachable = TRUE]]
    /\ UNCHANGED <<tasks, nextTask, task_queue, completed_tasks,
                   step_assignments, nm_running, sched, executing, submit_error>>
    /\ UNCHANGED <<queueVars, routerVars, discoveryVars>>

\* remove_node: the tasks of its slots fail, the node leaves the step
\* assignments and self.nodes; the node object keeps its slots
remove_node(n) ==
    /\ nodes[n].present
    /\ tasks' = fail_slot_tasks(tasks, nodes[n], "removed")
    /\ completed_tasks' = completed_tasks \o slot_tasks(nodes[n])
    /\ step_assignments' =
          [s \in NodeSteps |-> SelectSeq(step_assignments[s], LAMBDA m : m # n)]
    /\ nodes' = [nodes EXCEPT ![n].present = FALSE]
    /\ UNCHANGED <<nextTask, task_queue, nm_running, sched, executing,
                   submit_error>>
    /\ UNCHANGED <<queueVars, routerVars, discoveryVars>>

assign_node_to_step(step, n) ==
    /\ nodes[n].present
    /\ \A k \in 1..Len(step_assignments[step]) : step_assignments[step][k] # n
    /\ step_assignments' =
          [step_assignments EXCEPT ![step] = Append(@, n)]
    /\ UNCHANGED <<nodes, tasks, nextTask, task_queue, completed_tasks,
                   nm_running, sched, executing, submit_error>>
    /\ UNCHANGED <<queueVars, routerVars, discoveryVars>>

unassign_node_from_step(step, n) ==
    /\ \E k \in 1..Len(step_assignments[step]) : step_assignments[step][k] = n
    /\ step_assignments' =
          [step_assignments EXCEPT ![step] = SelectSeq(@, LAMBDA m : m # n)]
    /\ UNCHANGED <<nodes, tasks, nextTask, task_queue, completed_tasks,
                   nm_running, sched, executing, submit_error>>
    /\ UNCHANGED <<queueVars, routerVars, discoveryVars>>

\* mutant: one task more than max_queue_size let in
queue_is_full_above_max(q) == Len(q) > max_queue_size

\* len(self.task_queue) >= self.max_queue_size
queue_is_full(q) == Len(q) >= max_queue_size

submit_task(task_type, step, priority) ==
    /\ IF queue_is_full(task_queue)
       THEN \* raise RuntimeError("Task queue is full")
            /\ submit_error' = QueueFull
            /\ UNCHANGED <<tasks, nextTask, task_queue>>
       ELSE /\ nextTask <= MaxTasks
            /\ tasks' = [tasks EXCEPT ![nextTask] =
                            [NoTask EXCEPT !.status = "queued",
                                           !.task_type = task_type,
                                           !.step = step,
                                           !.priority = priority]]
            /\ task_queue' = insert_by_priority(task_queue, nextTask, priority)
            /\ nextTask' = nextTask + 1
            /\ submit_error' = NULL
    /\ UNCHANGED <<nodes, completed_tasks, step_assignments, nm_running, sched,
                   executing>>
    /\ UNCHANGED <<queueVars, routerVars, discoveryVars>>

\* mutant: the loop waits for the running tasks before it looks at the queue
process_task_queue_after_execution ==
    /\ nm_running
    /\ sched.pc = "idle"
    /\ executing = {}
    /\ task_queue # <<>>
    /\ LET task == Head(task_queue)
           selected_node == first_available_node(tasks[task].step,
                                                 tasks[task].task_type)
       IN /\ selected_node # 0
          /\ sched' = [pc |-> "selected", task |-> task, node |-> selected_node]
    /\ UNCHANGED <<nodes, tasks, nextTask, task_queue, completed_tasks,
                   step_assignments, nm_running, executing, submit_error>>
    /\ UNCHANGED <<queueVars, routerVars, discoveryVars>>

\* _process_queue, first part of a pass: task = self.task_queue[0];
\* available_nodes = get_available_nodes_for_step(...); selected_node =
\* available_nodes[0].  With no queued task or no available node the pass
\* only sleeps.
process_task_queue ==
    /\ nm_running
    /\ sched.pc = "idle"
    /\ task_queue # <<>>
    /\ LET task == Head(task_queue)
           selected_node == first_available_node(tasks[task].step,
                                                 tasks[task].task_type)
       IN /\ selected_node # 0
          /\ sched' = [pc |-> "selected", task |-> task, node |-> selected_node]
    /\ UNCHANGED <<nodes, tasks, nextTask, task_queue, completed_tasks,
                   step_assignments, nm_running, executing, submit_error>>
    /\ UNCHANGED <<queueVars, routerVars, discoveryVars>>

\* ProcessingNode.assign_task, called by _process_queue for selected_node
assign_task ==
    /\ sched.pc = "selected"
    /\ IF can_handle_task(nodes[sched.node], tasks[sched.task].task_type)
       THEN /\ nodes' = [nodes EXCEPT ![sched.node] =
                   update_status([@ EXCEPT
                       !.current_tasks[tasks[sched.task].task_type] = sched.task])]
            /\ tasks' = [tasks EXCEPT ![sched.task].assigned_node = sched.node,
                                      ![sched.task].status = "processing"]
            /\ sched' = [sched EXCEPT !.pc = "assigned"]
       ELSE \* "Failed to assign task"
            /\ sched' = NoSched
            /\ UNCHANGED <<nodes, tasks>>
    /\ UNCHANGED <<nextTask, task_queue, completed_tasks, step_assignments,
                   nm_running, executing, submit_error>>
    /\ UNCHANGED <<queueVars, routerVars, discoveryVars>>

\* _process_queue after a successful assign_task: self.task_queue.pop(0) and
\* the start of the _execute_task thread
launch_task ==
    /\ sched.pc = "assigned"
    /\ task_queue # <<>>
    /\ task_queue' = Tail(task_queue)
    /\ executing' = executing \cup {<<sched.task, sched.node>>}
    /\ sched' = NoSched
    /\ UNCHANGED <<nodes, tasks, nextTask, completed_tasks, step_assignments,
                   nm_running, submit_error>>
    /\ UNCHANGED <<queueVars, routerVars, discoveryVars>>

\* 0.8 * avg + 0.2 * processing_time, the first time of a type as it is
moving_average(avg, processing_time) ==
    IF avg = NoTime THEN TimeScale * processing_time
    ELSE (4 * avg + TimeScale * processing_time) \div 5

\* mutant: a task that ends with an error counted as completed
complete_task_counting_errors(ns, t, n, result, error, processing_time) ==
    IF ns[n].current_tasks[tasks[t].task_type] = t
    THEN [ns EXCEPT ![n] = update_status(
             [@ EXCEPT !.current_tasks[tasks[t].task_type] = 0,
                       !.avg_processing_time[tasks[t].task_type] =
                           moving_average(@, processing_time),
                       !.total_completed = @ + 1])]
    ELSE ns

\* ProcessingNode.complete_task(task, result, error): nothing happens unless
\* the task still is in its slot of the node
complete_task(ns, t, n, result, error, processing_time) ==
    IF ns[n].current_tasks[tasks[t].task_type] = t
    THEN [ns EXCEPT ![n] = update_status(
             [@ EXCEPT !.current_tasks[tasks[t].task_type] = 0,
                       !.avg_processing_time[tasks[t].task_type] =
                           moving_average(@, processing_time),
                       !.total_completed =
                           IF result # NULL THEN @ + 1 ELSE @])]
    ELSE ns

task_after_complete(ts, t, n, result, error) ==
    IF nodes[n].current_tasks[ts[t].task_type] = t
    THEN [ts EXCEPT ![t].status = IF result # NULL THEN "completed" ELSE "failed",
                    ![t].result = result,
                    ![t].error = error]
    ELSE ts

\* the end of an _execute_task thread: the task returned a result or raised,
\* processing_time seconds after it started
execute_task(t, n, result, error, processing_time) ==
    /\ <<t, n>> \in executing
    /\ nodes' = complete_task(nodes, t, n, result, error, processing_time)
    /\ tasks' = task_after_complete(tasks, t, n, result, error)
    /\ completed_tasks' = Append(completed_tasks, t)
    /\ executing' = executing \ {<<t, n>>}
    /\ UNCHANGED <<nextTask, task_queue, step_assignments, nm_running, sched,
                   submit_error>>
    /\ UNCHANGED <<queueVars, routerVars, discoveryVars>>

\* mutant: the node goes offline but keeps its slots and tasks
node_after_timeout_keeping_slots(node) ==
    IF node.status # "offline" THEN [node EXCEPT !.status = "offline"] ELSE node

\* _heartbeat_monitor for a node with time_since_heartbeat > node_timeout
node_after_timeout(node) ==
    IF node.status # "offline"
    THEN [node EXCEPT !.status = "offline",
                      !.current_tasks = [ty \in TaskTypes |-> 0]]
    ELSE node

\* _heartbeat_monitor for a node within the timeout: a ping that succeeds
\* renews last_heartbeat and recomputes the status of an OFFLINE node
node_after_ping(node) ==
    IF node.reachable /\ node.status = "offline" THEN update_status(node)
    ELSE node

\* one node of one pass of _heartbeat_monitor
heartbeat_monitor(n) ==
    /\ nm_running
    /\ nodes[n].present
    /\ IF nodes[n].stale
       THEN /\ nodes' = [nodes EXCEPT ![n] = node_after_timeout(@)]
            /\ IF nodes[n].status # "offline"
               THEN /\ tasks' = fail_slot_tasks(tasks, nodes[n], "offline")
                    /\ completed_tasks' = completed_tasks \o slot_tasks(nodes[n])
               ELSE UNCHANGED <<tasks, completed_tasks>>
       ELSE /\ nodes' = [nodes EXCEPT ![n] = node_after_ping(@)]
            /\ UNCHANGED <<tasks, completed_tasks>>
    /\ UNCHANGED <<nextTask, task_queue, step_assignments, nm_running, sched,
                   executing, submit_error>>
    /\ UNCHANGED <<queueVars, routerVars, discoveryVars>>

\* time passes without a successful ping of the node: its last_heartbeat
\* becomes older than node_timeout
node_timeout_elapses(n) ==
    /\ nodes[n].present
    /\ ~nodes[n].stale
    /\ ~nodes[n].reachable \/ ~nm_running
    /\ nodes' = [nodes EXCEPT ![n].stale = TRUE]
    /\ UNCHANGED <<tasks, nextTask, task_queue, completed_tasks,
                   step_assignments, nm_running, sched, executing, submit_error>>
    /\ UNCHANGED <<queueVars, routerVars, discoveryVars>>

\* the node's services stop or start answering _ping_node
node_reachability(n) ==
    /\ nodes[n].present
    /\ nodes' = [nodes EXCEPT ![n].reachable = ~@]
    /\ UNCHANGED <<tasks, nextTask, task_queue, completed_tasks,
                   step_assignments, nm_running, sched, executing, submit_error>>
    /\ UNCHANGED <<queueVars, routerVars, discoveryVars>>

\* ---------------------------------------------------------- OllamaManager

\* what generate raises in place of a target
NotConfigured == <<"No model assigned for step", NULL>>
InstanceNotAvailable == <<"Instance not available", NULL>>
ModelNotAvailable == <<"Model not available", NULL>>

\* self.step_model_assignments.get(step, (None, None))
get_assignment(step) ==
    IF step \in DOMAIN step_model_assignments
    THEN step_model_assignments[step] ELSE Unassigned

\* mutant: the model list of the instance not looked at
valid_target_any_model(instance_key, model_name) ==
    instance_key \in DOMAIN ollama_instances

\* the two tests of set_step_model
valid_target(instance_key, model_name) ==
    /\ instance_key \in DOMAIN ollama_instances
    /\ model_name \in ollama_instances[instance_key]

\* dict[key] = value
dict_set(d, key, value) ==
    [k \in DOMAIN d \cup {key} |-> IF k = key THEN value ELSE d[k]]

\* refresh_connections / background_scan: self.ollama_instances.update(...)
\* for one discovered instance and the models it lists
update_instances(instance_key, models) ==
    /\ ollama_instances' = dict_set(ollama_instances, instance_key, models)
    /\ UNCHANGED <<step_model_assignments, settings_file, selected_model,
                   router_result>>
    /\ UNCHANGED <<queueVars, nodeVars, discoveryVars>>

set_step_model(step, instance_key, model_name) ==
    /\ IF valid_target(instance_key, model_name)
       THEN /\ step_model_assignments' =
                  dict_set(step_model_assignments, step,
                           <<instance_key, model_name>>)
            \* save_model_settings()
            /\ settings_file' = step_model_assignments'
            /\ router_result' = [op |-> "set_step_model", ok |-> TRUE,
                                 target |-> <<instance_key, model_name>>]
       ELSE /\ router_result' = [op |-> "set_step_model", ok |-> FALSE,
                                 target |-> <<instance_key, model_name>>]
            /\ UNCHANGED <<step_model_assignments, settings_file>>
    /\ UNCHANGED <<ollama_instances, selected_model>>
    /\ UNCHANGED <<queueVars, nodeVars, discoveryVars>>

get_step_model(step) ==
    /\ router_result' = [op |-> "get_step_model", ok |-> TRUE,
                         target |-> get_assignment(step)]
    /\ UNCHANGED <<ollama_instances, step_model_assignments, settings_file,
                   selected_model>>
    /\ UNCHANGED <<queueVars, nodeVars, discoveryVars>>

\* legacy set_model: the model becomes config['selected_model'] and the
\* 'story' assignment on an instance that lists it
set_model(model_name) ==
    /\ \E e \in DOMAIN ollama_instances :
          /\ model_name \in ollama_instances[e]
          /\ step_model_assignments' =
                dict_set(step_model_assignments, "story", <<e, model_name>>)
    /\ selected_model' = model_name
    /\ settings_file' = step_model_assignments'
    /\ router_result' = [op |-> "set_model", ok |-> TRUE,
                         target |-> <<NULL, model_name>>]
    /\ UNCHANGED ollama_instances
    /\ UNCHANGED <<queueVars, nodeVars, discoveryVars>>

\* the <<instance, model>> generate sends the prompt to, or the exception it
\* raises before sending
generate_target(step) ==
    LET assigned == get_assignment(step)
        unset == assigned[1] = NULL \/ assigned[2] = NULL
        target == IF unset THEN <<"localhost:11434", selected_model>>
                  ELSE assigned
    IN IF unset /\ selected_model = NULL THEN NotConfigured
       ELSE IF target[1] \notin DOMAIN ollama_instances THEN InstanceNotAvailable
       ELSE IF target[2] \notin ollama_instances[target[1]] THEN ModelNotAvailable
       ELSE target

generate(step) ==
    /\ router_result' = [op |-> "generate",
                         ok |-> generate_target(step)[1] \in Endpoints,
                         target |-> generate_target(step)]
    /\ UNCHANGED <<ollama_instances, step_model_assignments, settings_file,
                   selected_model>>
    /\ UNCHANGED <<queueVars, nodeVars, discoveryVars>>

\* ---------------------------------------------------- FastNetworkDiscovery

\* the endpoints quick_check_ollama can return a result for
Up == {e \in Endpoints : endpoint_state[e] = "up"}

\* mutant: the cache replaced by what the scan found
replace_by_found(cache, found) == [k \in found |-> "online"]

\* self.ollama_instances.update(found_instances): every found instance is
\* written with status 'online', every other key stays as it is
update_with_found(cache, found) ==
    [k \in DOMAIN cache \cup found |-> IF k \in found THEN "online" ELSE cache[k]]

\* the body of fast_scan past the cache test.  active_ips are the hosts
\* get_active_ips_fast lists, found the probed instances whose future gave a
\* result within its timeout, raises an exception inside the try block
\* before the cache update
scan(op, active_ips, found, raises) ==
    /\ found \subseteq active_ips \cap Up
    /\ IF raises
       THEN \* except Exception: print; the cache and its timestamp stay
            /\ scan_result' = [op |-> op, found |-> {}]
            /\ cache_valid' = FALSE
            /\ UNCHANGED cached_instances
       ELSE IF active_ips = {}
       THEN \* if not active_ips: return found_instances
            /\ scan_result' = [op |-> op, found |-> {}]
            /\ cache_valid' = FALSE
            /\ UNCHANGED cached_instances
       ELSE /\ cached_instances' = update_with_found(cached_instances, found)
            /\ cache_valid' = TRUE
            /\ scan_result' = [op |-> op, found |-> found]

fast_scan(active_ips, found, raises) ==
    /\ IF cache_valid
       THEN \* return self.ollama_instances.copy()
            /\ scan_result' = [op |-> "fast_scan",
                               found |-> DOMAIN cached_instances]
            /\ UNCHANGED <<cached_instances, cache_valid>>
       ELSE scan("fast_scan", active_ips, found, raises)
    /\ UNCHANGED endpoint_state
    /\ UNCHANGED <<queueVars, nodeVars, routerVars>>

\* force_refresh: self.cache_timestamp = 0; return self.fast_scan()
force_refresh(active_ips, found, raises) ==
    /\ scan("force_refresh", active_ips, found, raises)
    /\ UNCHANGED endpoint_state
    /\ UNCHANGED <<queueVars, nodeVars, routerVars>>

\* background_worker: every 30 seconds, if not self.is_cache_valid(): fast_scan()
background_worker(active_ips, found, raises) ==
    /\ ~cache_valid
    /\ scan("background", active_ips, found, raises)
    /\ UNCHANGED endpoint_state
    /\ UNCHANGED <<queueVars, nodeVars, routerVars>>

\* refresh_models_for_instance: a 200 answer marks the instance online, an
\* exception marks it offline, any other answer changes nothing; an unknown
\* key returns [] at once
refresh_models_for_instance(instance_key) ==
    /\ cached_instances' =
          IF instance_key \notin DOMAIN cached_instances THEN cached_instances
          ELSE IF endpoint_state[instance_key] = "up"
          THEN [cached_instances EXCEPT ![instance_key] = "online"]
          ELSE IF endpoint_state[instance_key] = "down"
          THEN [cached_instances EXCEPT ![instance_key] = "offline"]
          ELSE cached_instances
    /\ scan_result' = [op |-> "refresh_models_for_instance",
                       found |-> {instance_key} \cap DOMAIN cached_instances \cap Up]
    /\ UNCHANGED <<cache_valid, endpoint_state>>
    /\ UNCHANGED <<queueVars, nodeVars, routerVars>>

\* cache_duration seconds have passed since cache_timestamp
cache_expires ==
    /\ cache_valid
    /\ cache_valid' = FALSE
    /\ UNCHANGED <<cached_instances, endpoint_state, scan_result>>
    /\ UNCHANGED <<queueVars, nodeVars, routerVars>>

\* an Ollama server starts, stops or starts to answer with an error status
endpoint_changes(e, state) ==
    /\ endpoint_state[e] # state
    /\ endpoint_state' = [endpoint_state EXCEPT ![e] = state]
    /\ UNCHANGED <<cached_instances, cache_valid, scan_result>>
    /\ UNCHANGED <<queueVars, nodeVars, routerVars>>

Next ==
    \/ \E p \in Priorities, c \in BOOLEAN : add_to_queue(p, c)
    \/ \E i \in Ids : remove_from_queue(i)
    \/ remove_from_queue_delete
    \/ \E i \in Ids, np \in 1..MaxJobs : reorder_queue_item(i, np)
    \/ \E i \in Ids : retry_failed_item(i)
    \/ pause_queue
    \/ resume_queue
    \/ start_processing
    \/ stop_processing
    \/ \E c \in BOOLEAN, r \in BOOLEAN : update_config(c, r)
    \/ render_queue_change
    \/ \E d \in {NoDays} \cup 0..MaxDays : clear_completed_items(d)
    \/ day_passes
    \/ tick
    \/ \E w \in Threads : process_queue(w)
    \/ \E w \in Threads : process_queue_item(w)
    \/ \E w \in Threads : story_progress_callback(w)
    \/ \E w \in Threads : executor_success(w)
    \/ \E w \in Threads : executor_no_data(w)
    \/ \E w \in Threads, m \in Messages : executor_raise(w, m)
    \/ start
    \/ stop
    \/ \E n \in NodeIds, c \in CapabilityLists : add_node(n, c)
    \/ \E n \in NodeIds : remove_node(n)
    \/ \E s \in NodeSteps, n \in NodeIds : assign_node_to_step(s, n)
    \/ \E s \in NodeSteps, n \in NodeIds : unassign_node_from_step(s, n)
    \/ \E ty \in TaskTypes, s \in NodeSteps, p \in Priorities : submit_task(ty, s, p)
    \/ process_task_queue
    \/ assign_task
    \/ launch_task
    \/ \E t \in TaskIds, n \in NodeIds, o \in Outcomes, d \in Durations :
          execute_task(t, n, o[1], o[2], d)
    \/ \E n \in NodeIds : heartbeat_monitor(n)
    \/ \E n \in NodeIds : node_timeout_elapses(n)
    \/ \E n \in NodeIds : node_reachability(n)
    \/ \E e \in Endpoints, ms \in SUBSET Models : update_instances(e, ms)
    \/ \E s \in StepNames, e \in Endpoints, m \in Models : set_step_model(s, e, m)
    \/ \E s \in StepNames : get_step_model(s)
    \/ \E m \in Models : set_model(m)
    \/ \E s \in StepNames : generate(s)
    \/ \E a \in SUBSET Endpoints, f \in SUBSET Endpoints, r \in BOOLEAN :
          fast_scan(a, f, r)
    \/ \E a \in SUBSET Endpoints, f \in SUBSET Endpoints, r \in BOOLEAN :
          force_refresh(a, f, r)
    \/ \E a \in SUBSET Endpoints, f \in SUBSET Endpoints, r \in BOOLEAN :
          background_worker(a, f, r)
    \/ \E e \in Endpoints : refresh_models_for_instance(e)
    \/ cache_expires
    \/ \E e \in Endpoints, st \in EndpointStates : endpoint_changes(e, st)

Spec == Init /\ [][Next]_vars

\* ------------------------------------------------------------ specifications
\* Spec is the whole Queue Manager.  The specifications below take the same
\* Init and a subset of its actions, so each of their behaviours is a
\* behaviour of Spec.

\* submissions, removals and the worker loop with automatic retry
NextPop ==
    \/ \E p \in Priorities : add_to_queue(p, FALSE)
    \/ \E i \in Ids : remove_from_queue(i)
    \/ remove_from_queue_delete
    \/ \E w \in Threads : process_queue(w)
    \/ \E w \in Threads : process_queue_item(w)
    \/ \E w \in Threads : executor_success(w)
    \/ \E w \in Threads : executor_raise(w, "e1")

SpecPop == Init /\ [][NextPop]_vars

\* submissions and removals racing with the worker loop
NextRemove ==
    \/ \E p \in Priorities : add_to_queue(p, FALSE)
    \/ \E i \in Ids : remove_from_queue(i)
    \/ remove_from_queue_delete
    \/ \E w \in Threads : process_queue(w)
    \/ \E w \in Threads : process_queue_item(w)
    \/ \E w \in Threads : executor_success(w)

SpecRemove == Init /\ [][NextRemove]_vars

\* reorder calls between the passes of the worker loop
NextReorder ==
    \/ add_to_queue(DefaultPriority, FALSE)
    \/ \E i \in Ids, np \in 1..MaxJobs : reorder_queue_item(i, np)
    \/ \E w \in Threads : process_queue(w)
    \/ \E w \in Threads : process_queue_item(w)
    \/ \E w \in Threads : executor_success(w)
    \/ \E w \in Threads : executor_raise(w, "e1")

SpecReorder == Init /\ [][NextReorder]_vars

\* jobs removed from a queue that was reordered before
NextReorderRemove ==
    \/ add_to_queue(DefaultPriority, FALSE)
    \/ \E i \in Ids, np \in 1..MaxJobs : reorder_queue_item(i, np)
    \/ \E i \in Ids : remove_from_queue(i)
    \/ remove_from_queue_delete

SpecReorderRemove == Init /\ [][NextReorderRemove]_vars

\* the worker loop under pause, continuous mode and render-queue backpressure
NextLoop ==
    \/ add_to_queue(DefaultPriority, FALSE)
    \/ pause_queue
    \/ resume_queue
    \/ \E c \in BOOLEAN : update_config(c, retry_failed_items)
    \/ render_queue_change
    \/ \E w \in Threads : process_queue(w)
    \/ \E w \in Threads : process_queue_item(w)
    \/ \E w \in Threads : executor_success(w)
    \/ \E w \in Threads : executor_raise(w, "e1")

SpecLoop == Init /\ [][NextLoop]_vars

\* start_processing / stop_processing against running worker threads
NextThreads ==
    \/ add_to_queue(DefaultPriority, FALSE)
    \/ start_processing
    \/ stop_processing
    \/ \E r \in BOOLEAN : update_config(continuous_enabled, r)
    \/ \E w \in Threads : process_queue(w)
    \/ \E w \in Threads : process_queue_item(w)
    \/ \E w \in Threads : executor_raise(w, "e1")

SpecThreads == Init /\ [][NextThreads]_vars

\* executor failures and manual retry, one worker
NextRetry ==
    \/ add_to_queue(DefaultPriority, FALSE)
    \/ \E i \in Ids : retry_failed_item(i)
    \/ \E w \in Threads : process_queue(w)
    \/ \E w \in Threads : process_queue_item(w)
    \/ \E w \in Threads : executor_no_data(w)
    \/ \E w \in Threads, m \in Messages : executor_raise(w, m)

SpecRetry == Init /\ [][NextRetry]_vars

\* processing runs with progress updates while the clock advances
NextEta ==
    \/ add_to_queue(DefaultPriority, FALSE)
    \/ tick
    \/ \E w \in Threads : process_queue(w)
    \/ \E w \in Threads : process_queue_item(w)
    \/ \E w \in Threads : story_progress_callback(w)
    \/ \E w \in Threads : executor_success(w)
    \/ \E w \in Threads : executor_no_data(w)

SpecEta == Init /\ [][NextEta]_vars

\* cleanup calls next to the worker loop, over finished rows of every age
NextClear ==
    \/ add_to_queue(DefaultPriority, FALSE)
    \/ \E i \in Ids : remove_from_queue(i)
    \/ remove_from_queue_delete
    \/ \E d \in {NoDays} \cup 0..MaxDays : clear_completed_items(d)
    \/ day_passes
    \/ \E w \in Threads : process_queue(w)
    \/ \E w \in Threads : process_queue_item(w)
    \/ \E w \in Threads : executor_success(w)
    \/ \E w \in Threads : executor_no_data(w)

SpecClear == Init /\ [][NextClear]_vars

\* the scheduling loop over nodes of every capability
NextAssign ==
    \/ start
    \/ \E n \in NodeIds, c \in CapabilityLists : add_node(n, c)
    \/ \E ty \in TaskTypes : submit_task(ty, "story", DefaultPriority)
    \/ process_task_queue
    \/ assign_task
    \/ launch_task
    \/ \E t \in TaskIds, n \in NodeIds : execute_task(t, n, "result", NULL, 30)

SpecAssign == Init /\ [][NextAssign]_vars

\* submissions of every priority racing with the scheduling loop
NextSubmit ==
    \/ start
    \/ \E n \in NodeIds : add_node(n, {"hybrid"})
    \/ \E p \in Priorities : submit_task("text_llm", "story", p)
    \/ process_task_queue
    \/ assign_task
    \/ launch_task
    \/ \E t \in TaskIds, n \in NodeIds : execute_task(t, n, "result", NULL, 30)

SpecSubmit == Init /\ [][NextSubmit]_vars

\* stage assignments that change while the scheduling loop runs
NextSteps ==
    \/ start
    \/ \E n \in NodeIds : add_node(n, {"hybrid"})
    \/ \E n \in NodeIds : assign_node_to_step("story", n)
    \/ \E n \in NodeIds : unassign_node_from_step("story", n)
    \/ submit_task("text_llm", "story", DefaultPriority)
    \/ process_task_queue
    \/ assign_task
    \/ launch_task
    \/ \E t \in TaskIds, n \in NodeIds : execute_task(t, n, "result", NULL, 30)

SpecSteps == Init /\ [][NextSteps]_vars

\* the scheduling loop over nodes with a history of long and short tasks
NextLoad ==
    \/ start
    \/ \E n \in NodeIds : add_node(n, {"hybrid"})
    \/ submit_task("text_llm", "story", DefaultPriority)
    \/ process_task_queue
    \/ assign_task
    \/ launch_task
    \/ \E t \in TaskIds, n \in NodeIds, o \in Outcomes, d \in Durations :
          execute_task(t, n, o[1], o[2], d)

SpecLoad == Init /\ [][NextLoad]_vars

\* executions that end with a result or an error, the first node being one
\* that may have timed out in between (registered too long before the start)
NextComplete ==
    \/ start
    \/ \E n \in NodeIds : add_node(n, {"hybrid"})
    \/ submit_task("text_llm", "story", DefaultPriority)
    \/ process_task_queue
    \/ assign_task
    \/ launch_task
    \/ \E t \in TaskIds, n \in NodeIds, o \in Outcomes :
          execute_task(t, n, o[1], o[2], 30)
    \/ heartbeat_monitor(1)
    \/ node_timeout_elapses(1)

SpecComplete == Init /\ [][NextComplete]_vars

\* nodes removed while tasks wait, are assigned or execute
NextRemoveNode ==
    \/ start
    \/ \E n \in NodeIds : add_node(n, {"hybrid"})
    \/ \E n \in NodeIds : remove_node(n)
    \/ submit_task("text_llm", "story", DefaultPriority)
    \/ process_task_queue
    \/ assign_task
    \/ launch_task
    \/ \E t \in TaskIds, n \in NodeIds, o \in Outcomes :
          execute_task(t, n, o[1], o[2], 30)

SpecRemoveNode == Init /\ [][NextRemoveNode]_vars

\* the heartbeat loop next to the scheduling loop
NextHeartbeat ==
    \/ start
    \/ \E n \in NodeIds : add_node(n, {"hybrid"})
    \/ submit_task("text_llm", "story", DefaultPriority)
    \/ process_task_queue
    \/ assign_task
    \/ launch_task
    \/ \E n \in NodeIds : heartbeat_monitor(n)
    \/ \E n \in NodeIds : node_timeout_elapses(n)
    \/ \E n \in NodeIds : node_reachability(n)

SpecHeartbeat == Init /\ [][NextHeartbeat]_vars

\* the router over instances that are discovered and change their models
NextRouter ==
    \/ \E e \in Endpoints, ms \in SUBSET Models : update_instances(e, ms)
    \/ \E s \in StepNames, e \in Endpoints, m \in Models : set_step_model(s, e, m)
    \/ \E s \in StepNames : get_step_model(s)
    \/ \E m \in Models : set_model(m)
    \/ \E s \in StepNames : generate(s)

SpecRouter == Init /\ [][NextRouter]_vars

\* discovery scans, forced and per-endpoint refreshes over endpoints that
\* come and go
NextDiscovery ==
    \/ \E a \in SUBSET Endpoints, f \in SUBSET Endpoints, r \in BOOLEAN :
          fast_scan(a, f, r)
    \/ \E a \in SUBSET Endpoints, f \in SUBSET Endpoints, r \in BOOLEAN :
          force_refresh(a, f, r)
    \/ \E a \in SUBSET Endpoints, f \in SUBSET Endpoints, r \in BOOLEAN :
          background_worker(a, f, r)
    \/ \E e \in Endpoints : refresh_models_for_instance(e)
    \/ cache_expires
    \/ \E e \in Endpoints, st \in EndpointStates : endpoint_changes(e, st)

SpecDiscovery == Init /\ [][NextDiscovery]_vars

\* ------------------------------------------------------------------- claims

Processing == {i \in Ids : jobs[i].status = "processing"}

\* a pass of the worker loop that pops a job
Pops(w) == process_queue(w) /\ pc'[w] = "got"

\* C1: the job the worker loop pops is a QUEUED job of the highest priority
\* and, among those, of the lowest queue position.
C1_PopsBestQueued ==
    [][\A w \in Threads : Pops(w) =>
          LET i == next_item'[w] IN
          /\ i \in Queued(jobs)
          /\ current_queue_item' = i
          /\ \A j \in Queued(jobs) :
                /\ jobs[j].priority <= jobs[i].priority
                /\ jobs[j].priority = jobs[i].priority
                      => jobs[i].queue_position <= jobs[j].queue_position]_vars

\* A(p5), B(p9), C(p5) submitted in this order: B is popped while A and C wait
C1_Witness ==
    /\ \E w \in Threads : pc[w] = "got" /\ next_item[w] = 2
    /\ jobs[1].status = "queued" /\ jobs[1].priority = 5 /\ jobs[1].queue_position = 1
    /\ jobs[2].status = "queued" /\ jobs[2].priority = 9 /\ jobs[2].queue_position = 2
    /\ jobs[3].status = "queued" /\ jobs[3].priority = 5 /\ jobs[3].queue_position = 3

\* C2: at most one job has status PROCESSING.
C2_AtMostOneProcessing == Cardinality(Processing) <= 1

\* C3: no two QUEUED jobs share a queue position.
C3_DistinctQueuedPositions ==
    \A i, j \in Queued(jobs) :
        i # j => jobs[i].queue_position # jobs[j].queue_position

\* the executor of worker w fails with message m for the PROCESSING job it holds
ExecutorFails(w, m) ==
    /\ pc[w] = "exec"
    /\ jobs[next_item[w]].status = "processing"
    /\ \/ executor_raise(w, m)
       \/ m = NoDataError /\ executor_no_data(w)

\* C4: an executor failure that leaves the attempt count below max attempts,
\* with retry enabled, returns the job to QUEUED with one more attempt and the
\* executor's error message recorded.
C4_FailureBelowMaxRequeues ==
    [][\A w \in Threads, m \in Messages \cup {NoDataError} :
          (/\ ExecutorFails(w, m)
           /\ jobs[next_item[w]].attempts + 1 < MaxAttempts
           /\ retry_failed_items)
          => LET i == next_item[w] IN
             /\ jobs'[i].status = "queued"
             /\ jobs'[i].attempts = jobs[i].attempts + 1
             /\ jobs'[i].error_message = m]_vars

\* a step of the worker loop
WorkerStep ==
    \E w \in Threads :
        \/ process_queue(w)
        \/ process_queue_item(w)
        \/ story_progress_callback(w)
        \/ executor_success(w)
        \/ executor_no_data(w)
        \/ \E m \in Messages : executor_raise(w, m)

\* C5: a FAILED job keeps its error and attempt count in the steps of the
\* worker loop and no step of the worker loop moves it back to QUEUED.
C5_FailedStaysFailed ==
    [][\A i \in Ids :
          (jobs[i].status = "failed" /\ WorkerStep)
          => /\ jobs'[i].status = "failed"
             /\ jobs'[i].attempts = jobs[i].attempts]_vars

\* C6: a job requeued by automatic retry is behind every job of its priority
\* that was QUEUED at the moment of the requeue.
C6_RequeuedAtBackOfTier ==
    [][\A w \in Threads :
          LET i == next_item[w] IN
          (executor_raise(w, "e1") /\ jobs'[i].status = "queued")
          => \A j \in Queued(jobs) \ {i} :
                jobs[j].priority = jobs[i].priority
                   => jobs'[j].queue_position < jobs'[i].queue_position]_vars

\* a pass of the worker loop that pops nothing, moves nothing to PROCESSING
\* and submits nothing
NothingPopped(w) == UNCHANGED <<jobs, nextId, pc, next_item>>

PassWithoutPop(w) == process_queue(w) /\ pc'[w] # "got"

C9_ContinuousStoryGuard ==
    [][\A w \in Threads :
          (process_queue(w) /\ nextId' # nextId)
          => /\ Queued(jobs) = {}
             /\ continuous_enabled
             /\ backlog < LowThreshold
             /\ nextId' = nextId + 1
             /\ jobs'[nextId].status = "queued"
             /\ jobs'[nextId].continuous_generation
             /\ jobs'[nextId].priority < DefaultPriority]_vars

\* a synthesized job waits in the queue
C9_Witness ==
    \E i \in Ids :
        /\ jobs[i].status = "queued"
        /\ jobs[i].continuous_generation
        /\ jobs[i].priority = ContinuousPriority

\* the status changes of the state machine; PROCESSING -> QUEUED only in the
\* automatic retry of the worker that holds the job, FAILED -> QUEUED only in
\* a manual retry
AllowedChange(i) ==
    LET from == jobs[i].status
        to == jobs'[i].status
    IN \/ <<from, to>> \in {<<"none", "queued">>, <<"queued", "processing">>,
                            <<"processing", "completed">>,
                            <<"processing", "failed">>}
       \/ to = "none"
       \/ /\ from = "processing" /\ to = "queued"
          /\ \E w \in Threads, m \in Messages :
                next_item[w] = i /\ executor_raise(w, m)
       \/ /\ from = "failed" /\ to = "queued"
          /\ retry_failed_item(i)

\* C10: every status change of a job is one of the state machine.
C10_StatusStateMachine ==
    [][\A i \in Ids : jobs'[i].status # jobs[i].status => AllowedChange(i)]_vars

\* C11: no step deletes the record of a job that is PROCESSING.
C11_ProcessingNeverDeleted ==
    [][\A i \in Ids :
          jobs[i].status = "processing" => jobs'[i].status # "none"]_vars

\* the slots of node n that a step fills
Filled(n) ==
    {ty \in TaskTypes : /\ nodes'[n].current_tasks[ty] # 0
                        /\ nodes'[n].current_tasks[ty] # nodes[n].current_tasks[ty]}

\* C12: a step that puts a task into a slot of a node puts it into a free
\* slot of the task's type on a node that advertises that type, and every
\* occupied slot holds a task of the slot's type on a node capable of it.
C12_AssignedToCapableFreeSlot ==
    /\ [](\A n \in NodeIds, ty \in TaskTypes :
            nodes[n].current_tasks[ty] # 0
            => /\ advertises(nodes[n], ty)
               /\ tasks[nodes[n].current_tasks[ty]].task_type = ty)
    /\ [][\A n \in NodeIds : \A ty \in Filled(n) :
            /\ nodes[n].current_tasks[ty] = 0
            /\ advertises(nodes[n], ty)
            /\ tasks[nodes'[n].current_tasks[ty]].task_type = ty
            /\ tasks'[nodes'[n].current_tasks[ty]].assigned_node = n]_vars

\* node 1 TEXT-only, node 2 TEXT+MEDIA: the MEDIA task runs on node 2 while
\* node 1 is idle
C12_Witness ==
    /\ nodes[1].present /\ nodes[1].capabilities = {"text_llm"}
    /\ nodes[2].present /\ nodes[2].capabilities = {"hybrid"}
    /\ nodes[1].status = "available"
    /\ nodes[2].current_tasks["comfyui"] # 0

\* C13: the pass of the heartbeat loop over a node whose last heartbeat is
\* older than the timeout leaves the node OFFLINE with empty slots, the tasks
\* that were in its slots FAILED with an offline reason, and every other node
\* and every other task as they were.
C13_TimeoutFailsExactlySlotTasks ==
    [][\A n \in NodeIds :
          (heartbeat_monitor(n) /\ nodes[n].stale)
          => /\ nodes'[n].status = "offline"
             /\ \A ty \in TaskTypes : nodes'[n].current_tasks[ty] = 0
             /\ \A t \in TaskIds :
                   IF \E ty \in TaskTypes : nodes[n].current_tasks[ty] = t
                   THEN /\ tasks'[t].status = "failed"
                        /\ tasks'[t].error = "offline"
                   ELSE tasks'[t] = tasks[t]
             /\ \A m \in NodeIds \ {n} : nodes'[m] = nodes[m]]_vars

\* node 1 went offline holding a TEXT task, which failed for that reason,
\* while node 2 goes on with its own task
C13_Witness ==
    /\ nodes[1].status = "offline"
    /\ \E t \in TaskIds :
          /\ tasks[t].assigned_node = 1
          /\ tasks[t].task_type = "text_llm"
          /\ tasks[t].status = "failed" /\ tasks[t].error = "offline"
    /\ nodes[2].status = "busy_text"
    /\ tasks[nodes[2].current_tasks["text_llm"]].status = "processing"

\* the heartbeat loop gets its turn at every node again and again
SpecHeartbeatFair ==
    SpecHeartbeat /\ \A n \in NodeIds : WF_vars(heartbeat_monitor(n))

\* C14: a registered node that is OFFLINE and answers the liveness probe
\* leaves OFFLINE (or stops answering).
C14_ReachableNodeLeavesOffline ==
    \A n \in NodeIds :
        (nodes[n].present /\ nodes[n].status = "offline" /\ nodes[n].reachable)
        ~> (nodes[n].status # "offline" \/ ~nodes[n].reachable)

\* the tasks in the task queue
InTaskQueue(q) == {q[k] : k \in 1..Len(q)}

\* C15: no step changes the assigned node of a task that has one or puts
\* the task into the task queue.
C15_AssignedOnce ==
    [][\A t \in TaskIds :
          tasks[t].assigned_node # 0
          => /\ tasks'[t].assigned_node = tasks[t].assigned_node
             /\ t \in InTaskQueue(task_queue') => t \in InTaskQueue(task_queue)]_vars

\* C16: the task queue is in descending order of priority, and tasks of one
\* priority are in the order of their submission.
C16_QueueInPriorityOrder ==
    \A i, j \in 1..Len(task_queue) :
        i < j => \/ tasks[task_queue[i]].priority > tasks[task_queue[j]].priority
                 \/ /\ tasks[task_queue[i]].priority = tasks[task_queue[j]].priority
                    /\ task_queue[i] < task_queue[j]

\* a task of the higher priority waits ahead of a task of the lower priority
\* that was submitted before it
C16_Witness ==
    /\ Len(task_queue) = 2
    /\ tasks[task_queue[1]].priority = 9
    /\ tasks[task_queue[2]].priority = DefaultPriority
    /\ task_queue[2] < task_queue[1]

\* a call of submit_task
SubmitCall ==
    \E ty \in TaskTypes, s \in NodeSteps, p \in Priorities : submit_task(ty, s, p)

\* C17: the task queue never is longer than max_queue_size, and a submit_task
\* call on a full queue raises the queue-full error, creates no task and
\* leaves the queue as it was.
C17_QueueBounded ==
    /\ [](Len(task_queue) <= max_queue_size)
    /\ [][(SubmitCall /\ Len(task_queue) = max_queue_size)
          => /\ submit_error' = QueueFull
             /\ UNCHANGED <<tasks, nextTask, task_queue>>]_vars

\* a submission was refused on a full queue
C17_Witness ==
    /\ Len(task_queue) = max_queue_size
    /\ submit_error = QueueFull

\* the queue position a QUEUED job at position q has to have after a job
\* moved from position cur to position p
Shifted(q, cur, p) ==
    IF p < cur /\ p <= q /\ q < cur THEN q + 1
    ELSE IF p > cur /\ cur < q /\ q <= p THEN q - 1
    ELSE q

\* C20: reorder of a QUEUED job to a position p within the queue depth
\* leaves the job at p, moves exactly the QUEUED jobs between the old and the
\* new position by one, keeps the order of the other QUEUED jobs among
\* themselves, changes nothing but positions and, if the QUEUED positions
\* were pairwise distinct, leaves them pairwise distinct.
C20_ReorderShiftsBetween ==
    [][\A i \in Ids, p \in 1..MaxJobs :
          (/\ reorder_queue_item(i, p)
           /\ jobs[i].status = "queued"
           /\ p <= Cardinality(Queued(jobs)))
          => /\ jobs'[i].queue_position = p
             /\ \A j \in Ids :
                   jobs'[j] = [jobs[j] EXCEPT !.queue_position =
                                                  jobs'[j].queue_position]
             /\ \A j \in Queued(jobs) \ {i} :
                   jobs'[j].queue_position =
                       Shifted(jobs[j].queue_position, jobs[i].queue_position, p)
             /\ \A j, k \in Queued(jobs) \ {i} :
                   jobs[j].queue_position < jobs[k].queue_position
                   => jobs'[j].queue_position < jobs'[k].queue_position
             /\ C3_DistinctQueuedPositions => C3_DistinctQueuedPositions']_vars

\* the third of three QUEUED jobs was moved to the front: the other two
\* moved back by one
C20_Witness ==
    /\ Queued(jobs) = {1, 2, 3}
    /\ jobs[3].queue_position = 1
    /\ jobs[1].queue_position = 2
    /\ jobs[2].queue_position = 3

\* C18: set_step_model returns True and stores the pair as the step's target
\* if the instance key is known and the model is in its model list; otherwise
\* it returns False and the stored assignments and the settings file are
\* unchanged.
C18_AssignValidated ==
    [][\A s \in StepNames, e \in Endpoints, m \in Models :
          set_step_model(s, e, m)
          => IF e \in DOMAIN ollama_instances /\ m \in ollama_instances[e]
             THEN /\ router_result'.ok
                  /\ step_model_assignments'[s] = <<e, m>>
                  /\ settings_file'[s] = <<e, m>>
             ELSE /\ ~router_result'.ok
                  /\ UNCHANGED <<step_model_assignments, settings_file>>]_vars

\* an assignment was refused for a model the known instance does not list,
\* after one was accepted
C18_Witness ==
    /\ router_result.op = "set_step_model" /\ ~router_result.ok
    /\ router_result.target[1] \in DOMAIN ollama_instances
    /\ router_result.target[2] \notin ollama_instances[router_result.target[1]]
    /\ \E s \in PipelineSteps : step_model_assignments[s] # Unassigned

\* C19: resolving a step for generation gives the step's assigned pair, and
\* NotConfigured for a step without assignment.
C19_NoFallbackTarget ==
    [][\A s \in StepNames :
          generate(s)
          => \/ router_result'.target = get_assignment(s)
                /\ get_assignment(s) # Unassigned
             \/ ~router_result'.ok]_vars

\* the rows a step deletes
Deleted == {i \in Ids : jobs[i].status # "none" /\ jobs'[i].status = "none"}

\* a call of the cleanup operation
ClearCall == \E d \in {NoDays} \cup 0..MaxDays : clear_completed_items(d)

\* C21: a row is deleted only in a step of remove_from_queue or of the
\* cleanup operation, and a row the cleanup operation deletes is COMPLETED or
\* FAILED and finished longer ago than the threshold of the call (longer ago
\* than zero days for a call that names no threshold).
C21_CleanupAgeThresholded ==
    [][/\ Deleted # {} => (remove_from_queue_delete \/ ClearCall)
       /\ \A d \in {NoDays} \cup 0..MaxDays :
             clear_completed_items(d)
             => \A i \in Deleted :
                   /\ jobs[i].status \in {"completed", "failed"}
                   /\ jobs[i].completed_at > (IF d = NoDays THEN 0 ELSE d)]_vars

\* C22: no step removes a key of the discovery cache, so a cache that is not
\* empty never becomes empty, whatever the scans and refreshes find.
C22_CacheKeysOnlyGrow ==
    [][DOMAIN cached_instances \subseteq DOMAIN cached_instances']_vars

\* a forced refresh found nothing while both endpoints are cached, one of
\* them marked offline
C22_Witness ==
    /\ scan_result = [op |-> "force_refresh", found |-> {}]
    /\ DOMAIN cached_instances = Endpoints
    /\ \E e \in Endpoints : cached_instances[e] = "offline"

\* the background scan gets its turn again and again, and the cache expires
\* again and again
SpecDiscoveryFair ==
    /\ SpecDiscovery
    /\ WF_vars(\E a \in SUBSET Endpoints, f \in SUBSET Endpoints, r \in BOOLEAN :
                  background_worker(a, f, r))
    /\ WF_vars(cache_expires)

\* C23: a cached endpoint that is down is marked offline in the cache in the
\* course of the discovery scans (or comes up again).
C23_DownEndpointMarkedOffline ==
    \A e \in Endpoints :
        (e \in DOMAIN cached_instances /\ endpoint_state[e] = "down")
        ~> (\/ e \in DOMAIN cached_instances /\ cached_instances[e] = "offline"
            \/ endpoint_state[e] # "down")

\* C24: a set_step_model call for a step name that is not a pipeline step
\* returns False and leaves the stored assignments and the settings file
\* without an entry for that name.
C24_UnknownStepRejected ==
    [][\A s \in StepNames \ PipelineSteps, e \in Endpoints, m \in Models :
          set_step_model(s, e, m)
          => /\ ~router_result'.ok
             /\ s \notin DOMAIN step_model_assignments'
             /\ s \notin DOMAIN settings_file']_vars

\* the registered nodes that may take a task: of the stage's assignment if
\* it has one, not OFFLINE or ERROR, capable of the task's type and with the
\* slot of that type free
Takers(t) ==
    {n \in NodeIds :
        /\ nodes[n].present
        /\ nodes[n].status \notin {"offline", "error"}
        /\ advertises(nodes[n], tasks[t].task_type)
        /\ nodes[n].current_tasks[tasks[t].task_type] = 0
        /\ \/ step_assignments[tasks[t].step] = <<>>
           \/ \E k \in 1..Len(step_assignments[tasks[t].step]) :
                 step_assignments[tasks[t].step][k] = n}

\* C25: a QUEUED task at the head of the task queue that no node can take
\* stays in the queue, QUEUED, without assigned node and without error in
\* every step, and stays at the head unless the step is a submission.
C25_WaitingTaskStaysQueued ==
    [][\A t \in TaskIds :
          (/\ task_queue # <<>> /\ Head(task_queue) = t
           /\ tasks[t].status = "queued" /\ Takers(t) = {})
          => /\ t \in InTaskQueue(task_queue')
             /\ tasks'[t].status = "queued"
             /\ tasks'[t].assigned_node = 0
             /\ tasks'[t].error = NULL
             /\ Head(task_queue') = t \/ SubmitCall]_vars

\* C26: with the scheduling loop running and between two passes, a task at
\* the head of the task queue and a node that can take it, the next pass
\* selects that task and such a node, whatever tasks are executing.
C26_SchedulingNotBlockedByExecution ==
    (/\ nm_running /\ sched.pc = "idle" /\ task_queue # <<>>
     /\ Takers(Head(task_queue)) # {})
    => ENABLED (/\ process_task_queue
                /\ sched'.task = Head(task_queue)
                /\ sched'.node \in Takers(Head(task_queue)))

\* the second task was started on node 2 while the first executes on node 1
C26_Witness ==
    /\ executing = {<<1, 1>>, <<2, 2>>}
    /\ tasks[1].status = "processing" /\ tasks[2].status = "processing"
    /\ nodes[1].current_tasks[tasks[1].task_type] = 1
    /\ nodes[2].current_tasks[tasks[2].task_type] = 2

\* a step of the worker loop that starts work while the queue is paused: it
\* pops a job, moves a job to PROCESSING or submits a job
StartsWork(w) ==
    \/ Pops(w)
    \/ process_queue(w) /\ nextId' # nextId
    \/ /\ process_queue_item(w)
       /\ jobs[next_item[w]].status # "processing"
       /\ jobs'[next_item[w]].status = "processing"

\* C27: while the queue is paused no step of the worker loop pops a job,
\* moves a job to PROCESSING or submits a job.
C27_PausedLoopStartsNothing ==
    [][\A w \in Threads : paused => ~StartsWork(w)]_vars

\* the nodes of the assignment of a stage
AssignedTo(step) ==
    {step_assignments[step][k] : k \in 1..Len(step_assignments[step])}

\* C28: a step that gives a task its node gives it a node of the assignment
\* of the task's stage if that assignment is not empty, and a registered
\* node capable of the task's type if it is.
C28_AssignedWithinStageAssignment ==
    [][\A t \in TaskIds :
          tasks'[t].assigned_node # tasks[t].assigned_node
          => LET n == tasks'[t].assigned_node IN
             IF step_assignments[tasks[t].step] # <<>>
             THEN n \in AssignedTo(tasks[t].step)
             ELSE nodes[n].present /\ advertises(nodes[n], tasks[t].task_type)]_vars

\* the load score of the claim, times 120 * TimeScale: occupied slots, plus
\* the mean of the average durations in minutes, minus a tenth per completed
\* task up to two
LoadScore(node) ==
    LET occupied == Cardinality({ty \in TaskTypes : node.current_tasks[ty] # 0})
        timed == {ty \in TaskTypes : node.avg_processing_time[ty] # NoTime}
        total == IF timed = {} THEN 0
                 ELSE IF Cardinality(timed) = 1
                 THEN node.avg_processing_time[CHOOSE ty \in timed : TRUE]
                 ELSE node.avg_processing_time["text_llm"]
                      + node.avg_processing_time["comfyui"]
        minutes == IF timed = {} THEN 0 ELSE (2 * total) \div Cardinality(timed)
        bonus == IF node.total_completed >= 20 THEN 240
                 ELSE 12 * node.total_completed
    IN TimeScale * (120 * occupied - bonus) + minutes

\* C29: the node a pass of the scheduling loop selects for a task is one of
\* the nodes that can take the task, and no node that can take it has a
\* smaller load score.
C29_SelectedNodeHasLeastLoad ==
    [][process_task_queue
       => /\ sched'.node \in Takers(sched'.task)
          /\ \A m \in Takers(sched'.task) :
                LoadScore(nodes[sched'.node]) <= LoadScore(nodes[m])]_vars

\* node 2 is selected while node 1, registered first and idle, carries the
\* average duration of the task it completed
C29_Witness ==
    /\ sched.pc = "selected" /\ sched.node = 2
    /\ 1 \in Takers(sched.task)
    /\ nodes[1].total_completed = 1
    /\ nodes[1].avg_processing_time["text_llm"] # NoTime
    /\ nodes[2].avg_processing_time["text_llm"] = NoTime

\* the end of the execution of task t on node n with outcome o
ExecutionEnds(t, n, o) == \E d \in Durations : execute_task(t, n, o[1], o[2], d)

\* what the end of the execution of t on n with outcome o has to leave: the
\* slot free, the other slot as it was, the status that matches the other
\* slot, the task COMPLETED with its result or FAILED with its error, and
\* the completed counter one higher exactly for a result
Released(t, n, o) ==
    LET ty == tasks[t].task_type
        other == CHOOSE x \in TaskTypes : x # ty
    IN /\ nodes'[n].current_tasks[ty] = 0
       /\ nodes'[n].current_tasks[other] = nodes[n].current_tasks[other]
       /\ nodes'[n].status =
             IF nodes[n].current_tasks[other] = 0 THEN "available"
             ELSE IF other = "text_llm" THEN "busy_text" ELSE "busy_comfyui"
       /\ tasks'[t].status = IF o[1] # NULL THEN "completed" ELSE "failed"
       /\ tasks'[t].result = o[1]
       /\ tasks'[t].error = o[2]
       /\ nodes'[n].total_completed =
             nodes[n].total_completed + (IF o[1] # NULL THEN 1 ELSE 0)

\* C30 as stated: every end of an execution frees the slot, recomputes the
\* status, records the outcome in the task and counts a success.
C30_Original ==
    [][\A t \in TaskIds, n \in NodeIds, o \in Outcomes :
          ExecutionEnds(t, n, o) => Released(t, n, o)]_vars

\* C30 amended: the end of an execution of a task that still is in its slot
\* of the node frees the slot, recomputes the status, records the outcome in
\* the task and counts a success.
C30_ExecutionEndReleasesSlot ==
    [][\A t \in TaskIds, n \in NodeIds, o \in Outcomes :
          (/\ ExecutionEnds(t, n, o)
           /\ nodes[n].current_tasks[tasks[t].task_type] = t)
          => Released(t, n, o)]_vars

\* a node that is idle again after one task that gave a result and one that
\* raised an error, the first counted and the second not
C30_Witness ==
    \E t, u \in TaskIds, n \in NodeIds :
        /\ tasks[t].status = "failed" /\ tasks[t].error = "error"
        /\ tasks[t].assigned_node = n
        /\ tasks[u].status = "completed" /\ tasks[u].result = "result"
        /\ tasks[u].assigned_node = n
        /\ nodes[n].status = "available"
        /\ nodes[n].total_completed = 1

\* C31: a successful executor leaves its job COMPLETED without an estimated
\* completion and adds the produced shots to the render queue; every COMPLETED
\* or FAILED job has no estimated-completion value.
C31_FinishedJobsHaveNoEta ==
    [][/\ \A w \in Threads :
            (executor_success(w) /\ jobs[next_item[w]].status # "none")
            => LET i == next_item[w] IN
               /\ jobs'[i].status = "completed"
               /\ jobs'[i].estimated_completion = NULL
               /\ backlog < MaxBacklog => backlog' = backlog + 1
       /\ \A i \in Ids :
            jobs'[i].status \in {"completed", "failed"}
            => jobs'[i].estimated_completion = NULL]_vars

\* a completed job and a failed job, both without estimate, and shots in the
\* render queue
C31_Witness ==
    /\ backlog > 0
    /\ \E i, j \in Ids :
        /\ jobs[i].status = "completed" /\ jobs[i].estimated_completion = NULL
        /\ jobs[j].status = "failed" /\ jobs[j].estimated_completion = NULL

\* C37: a job's start time is recorded when it becomes PROCESSING and every
\* later progress update of the same processing run leaves it unchanged.
C37_StartTimeKeptByProgress ==
    [][\A w \in Threads :
          LET i == next_item[w] IN
          /\ (process_queue_item(w) /\ jobs[i].status = "queued")
             => jobs'[i].started_at = clock
          /\ (story_progress_callback(w) /\ jobs[i].status = "processing")
             => jobs'[i].started_at = jobs[i].started_at]_vars

\* the tasks that are in a slot of a node object
InSlot(ns) == {ns[n].current_tasks[ty] : n \in NodeIds, ty \in TaskTypes} \ {0}

\* C32: every accepted task is in the task queue, in a slot of a node or in
\* the completed list, and the task the scheduling loop takes off the queue
\* is the task it has just assigned.
C32_NoAcceptedTaskLost ==
    [][/\ \A t \in TaskIds :
            tasks'[t].status # "none"
            => \/ t \in InTaskQueue(task_queue')
               \/ t \in InSlot(nodes')
               \/ t \in InTaskQueue(completed_tasks')
       /\ launch_task => Head(task_queue) = sched.task]_vars

\* C33: the scheduling loop launches no task whose execution thread is
\* running already, and no task is in the completed list twice.
C33_LaunchedAndRecordedOnce ==
    [][/\ launch_task
          => \A n \in NodeIds : <<sched.task, n>> \notin executing
       /\ \A i, j \in 1..Len(completed_tasks') :
             i # j => completed_tasks'[i] # completed_tasks'[j]]_vars

\* C34: a task that is FAILED because its node was removed or went offline
\* never becomes COMPLETED or PROCESSING.
C34_FailedByNodeLossStaysFailed ==
    [][\A t \in TaskIds :
          (tasks[t].status = "failed" /\ tasks[t].error \in {"removed", "offline"})
          => tasks'[t].status \notin {"completed", "processing"}]_vars

\* C35: no step puts a task into a slot of a node that is OFFLINE, an OFFLINE
\* node has empty slots, and only the heartbeat loop changes the status of
\* an OFFLINE node.
C35_OfflineNodeGetsNoTask ==
    [][\A n \in NodeIds :
          /\ Filled(n) # {} => nodes[n].status # "offline"
          /\ nodes'[n].status = "offline"
             => \A ty \in TaskTypes : nodes'[n].current_tasks[ty] = 0
          /\ (nodes[n].status = "offline" /\ nodes'[n].status # "offline")
             => heartbeat_monitor(n)]_vars

\* the scheduling loop and the task threads keep running
SpecAssignFair ==
    /\ SpecAssign
    /\ WF_vars(start)
    /\ WF_vars(process_task_queue)
    /\ WF_vars(assign_task)
    /\ WF_vars(launch_task)
    /\ \A t \in TaskIds, n \in NodeIds :
          WF_vars(execute_task(t, n, "result", NULL, 30))

\* C36: a task for which again and again a registered, live and capable node
\* of its stage has the slot free goes from QUEUED to COMPLETED or FAILED.
C36_AcceptedTaskTerminates ==
    \A t \in TaskIds :
        []<>(Takers(t) # {})
        => (tasks[t].status = "queued"
            ~> tasks[t].status \in {"completed", "failed"})

\* C38: the attempt count of a job is at most its max attempts.
C38_AttemptsWithinMax ==
    \A i \in Ids : jobs[i].attempts <= MaxAttempts

\* QUEUED job j is popped before QUEUED job k
PoppedBefore(js, j, k) ==
    \/ js[j].priority > js[k].priority
    \/ /\ js[j].priority = js[k].priority
       /\ js[j].queue_position < js[k].queue_position

\* C39: the removal of a job leaves the pop order of the remaining QUEUED
\* jobs among themselves as it was.
C39_RemoveKeepsPopOrder ==
    [][remove_from_queue_delete
       => \A j, k \in Queued(jobs) \ {remove_pending} :
             PoppedBefore(jobs, j, k) => PoppedBefore(jobs', j, k)]_vars

\* one worker under pause, resume, a render queue that fills and drains and
\* manual retries of the first job
NextWorker ==
    \/ add_to_queue(DefaultPriority, FALSE)
    \/ pause_queue
    \/ resume_queue
    \/ update_config(TRUE, TRUE)
    \/ render_queue_change
    \/ retry_failed_item(1)
    \/ \E w \in Threads : process_queue(w)
    \/ \E w \in Threads : process_queue_item(w)
    \/ \E w \in Threads : executor_no_data(w)

SpecWorker == Init /\ [][NextWorker]_vars

\* the worker thread keeps running: it takes its next step, the executor
\* returns, and a pass that may pop when the loop looks is made again and
\* again (the loop polls every one to five seconds)
SpecWorkerFair ==
    /\ SpecWorker
    /\ WF_vars(\E w \in Threads : \/ process_queue(w)
                                   \/ process_queue_item(w)
                                   \/ executor_no_data(w))
    /\ SF_vars(\E w \in Threads : Pops(w))

\* the worker loop runs and neither the pause flag nor the render queue
\* holds it back
LoopMayPop == running /\ ~paused /\ ~should_wait_for_render_queue

\* every job that becomes QUEUED in the step is popped after job i
NoneEntersAhead(i) ==
    \A j \in Queued(jobs') \ Queued(jobs) : PoppedBefore(jobs', i, j)

====
